---- MODULE Spec2Model ----
(***************************************************************************)
(* Model of the Terraform registry backed by Artifact Registry generic     *)
(* repositories: pkg/store/artifactregistry.go (provider and module        *)
(* store), the Downloader, and the HTTP handlers of pkg/server/server.go.  *)
(*                                                                         *)
(* Strings are sequences of symbols.  A symbol stands for one character    *)
(* or for a run of characters that contains none of the characters the     *)
(* code splits on ("-", "/", white space), so splitting, joining, suffix   *)
(* tests and equality behave on these sequences as they do on Go strings.  *)
(* The Go empty string is the empty sequence.                              *)
(***************************************************************************)
EXTENDS Integers, Sequences, FiniteSets, TLC

VARIABLES
    pc,             \* position of the request being served
    op,             \* route and path values of the request
    cancelled,      \* the request context is cancelled
    store,          \* backing-store contents the request runs against
    calls,          \* backing-store calls issued so far, in order
    bodies,         \* upstream response bodies: "open" or "closed"
    pageToken,      \* token of the next listing page, 0 is the empty token
    fullVersions,   \* ListProviderVersions: collected raw version names
    vs,             \* ListModuleVersions: collected module versions
    files,          \* GetProviderVersion: collected files
    names,          \* GetProviderVersion: providerBinName, shaSumName, ...
    shaSums,        \* GetProviderVersion: parsed checksum manifest
    keys,           \* GetProviderVersion: parsed signing keys
    stream,         \* body handle being read: index in bodies, 0 is nil
    content,        \* what the upstream sends for the body being read
    result,         \* (value, error) returned by the store operation
    logged,         \* errors written to the log by the store operation
    status,         \* HTTP status of the response, 0 is none yet
    written,        \* chunks copied to the response by the asset handler
    codecIn,        \* input of the version codec
    codecOut,       \* output of the version codec
    fields,         \* the ArtifactRegistryGeneric struct the requests share
    requests        \* concurrent listing requests: the locals of each one

vars == <<pc, op, cancelled, store, calls, bodies, pageToken, fullVersions,
          vs, files, names, shaSums, keys, stream, content, result, logged,
          status, written, codecIn, codecOut,
                   fields, requests>>

(***************************************************************************)
(* Bounds                                                                  *)
(***************************************************************************)
MaxRawLen == 5      \* symbols in a raw version string given to the codec
MaxVersions == 3    \* versions the backing store lists for a package
MaxPageLen == 2     \* items the backing store returns per listing page
MaxLines == 2       \* lines of a checksum manifest
MaxChunks == 2      \* chunks of an asset body

(***************************************************************************)
(* Strings                                                                 *)
(***************************************************************************)
Dash == "-"
Slash == "/"
Space == " "

Nil == [kind |-> "nil"]

RECURSIVE SeqsUpTo(_, _)
SeqsUpTo(S, n) ==
    IF n = 0 THEN {<<>>}
    ELSE LET shorter == SeqsUpTo(S, n - 1)
         IN  shorter \cup {Append(s, x) : s \in {t \in shorter : Len(t) = n - 1}, x \in S}

\* number of occurrences of symbol c in s
RECURSIVE Count(_, _)
Count(s, c) ==
    IF s = <<>> THEN 0
    ELSE (IF Head(s) = c THEN 1 ELSE 0) + Count(Tail(s), c)

\* strings.Split(s, sep) for a one-symbol separator: the fields between
\* separators, empty fields kept; Split("") is one empty field.
RECURSIVE SplitFrom(_, _, _)
SplitFrom(s, sep, cur) ==
    IF s = <<>> THEN <<cur>>
    ELSE IF Head(s) = sep THEN <<cur>> \o SplitFrom(Tail(s), sep, <<>>)
    ELSE SplitFrom(Tail(s), sep, Append(cur, Head(s)))

Split(s, sep) == SplitFrom(s, sep, <<>>)

\* strings.Fields(s): the maximal runs of non-space symbols
Fields(s) == SelectSeq(Split(s, Space), LAMBDA f : f # <<>>)

\* strings.HasSuffix(s, suffix)
HasSuffix(s, suffix) ==
    /\ Len(suffix) <= Len(s)
    /\ SubSeq(s, Len(s) - Len(suffix) + 1, Len(s)) = suffix

\* path.Base(p): the last element of the path, "." for the empty path
RECURSIVE StripSlashes(_)
StripSlashes(p) ==
    IF p # <<>> /\ p[Len(p)] = Slash THEN StripSlashes(SubSeq(p, 1, Len(p) - 1))
    ELSE p

Base(p) ==
    IF p = <<>> THEN <<".">>
    ELSE LET q == StripSlashes(p)
         IN  IF q = <<>> THEN <<Slash>>
             ELSE LET parts == Split(q, Slash) IN parts[Len(parts)]

(***************************************************************************)
(* Version codec and file names (artifactregistry.go:281-330)              *)
(***************************************************************************)
fullVersion(version, os, arch) ==
    version \o <<Dash>> \o os \o <<Dash>> \o arch

InvalidVersionFormat(raw) == [kind |-> "invalid version format", raw |-> raw]

parseFullVersionKeepsFirstThree(version) ==
    LET parts == Split(version, Dash)
    IN  IF Len(parts) < 3
        THEN [version |-> <<>>, os |-> <<>>, arch |-> <<>>,
              err |-> InvalidVersionFormat(version)]
        ELSE [version |-> parts[1], os |-> parts[2], arch |-> parts[3], err |-> Nil]

parseFullVersion(version) ==
    LET parts == Split(version, Dash)
    IN  IF Len(parts) # 3
        THEN [version |-> <<>>, os |-> <<>>, arch |-> <<>>,
              err |-> InvalidVersionFormat(version)]
        ELSE [version |-> parts[1], os |-> parts[2], arch |-> parts[3], err |-> Nil]

modulePkg(name, system) == <<"terraform", Dash>> \o system \o <<Dash>> \o name

providerFileNamePrefix(pkg, fullVer, version) ==
    pkg \o <<":">> \o fullVer \o <<":", "terraform", Dash, "provider", Dash>>
        \o pkg \o <<"_">> \o version

moduleFileName(pkg, version) ==
    pkg \o <<":">> \o version \o <<":", "module", Dash, "archive.tar.gz">>

(***************************************************************************)
(* mapVersions (artifactregistry.go:289-314)                               *)
(***************************************************************************)
\* errors.Join(merr, err): the aggregate keeps every joined error, in order
Join(merr, err) ==
    IF merr = Nil THEN [kind |-> "joined", errs |-> <<err>>]
    ELSE [kind |-> "joined", errs |-> Append(merr.errs, err)]

\* m[version] = append(m[version], platform)
AppendPlatformOverwrites(m, version, platform) ==
    IF version \in DOMAIN m
    THEN [m EXCEPT ![version] = <<platform>>]
    ELSE m @@ (version :> <<platform>>)

AppendPlatform(m, version, platform) ==
    IF version \in DOMAIN m
    THEN [m EXCEPT ![version] = Append(@, platform)]
    ELSE m @@ (version :> <<platform>>)

EmptyMap == [x \in {} |-> <<>>]

\* the first loop of mapVersions: the map m and the joined error merr
RECURSIVE mapVersionsLoop(_, _, _)
mapVersionsLoop(fullVers, m, merr) ==
    IF fullVers = <<>> THEN [m |-> m, merr |-> merr]
    ELSE LET p == parseFullVersion(Head(fullVers))
         IN  IF p.err # Nil
             THEN mapVersionsLoop(Tail(fullVers), m, Join(merr, p.err))
             ELSE mapVersionsLoop(Tail(fullVers),
                      AppendPlatform(m, p.version, [OS |-> p.os, Arch |-> p.arch]),
                      merr)

\* the sequences that enumerate the set S, each element once
Orders(S) ==
    {o \in [1..Cardinality(S) -> S] : \A i, j \in DOMAIN o : o[i] = o[j] => i = j}

\* the orders in which "for v, p := range m" may visit the map
RangeOrders(m) == Orders(DOMAIN m)

\* mapVersions, the second loop visiting the map in the given order
mapVersions(fullVers, order) ==
    LET l == mapVersionsLoop(fullVers, EmptyMap, Nil)
    IN  [val |-> [kind |-> "ProviderVersions",
                  Versions |-> [i \in DOMAIN order |->
                                   [Version |-> order[i],
                                    Protocols |-> <<"5.0">>,
                                    Platforms |-> l.m[order[i]]]]],
         err |-> l.merr]

(***************************************************************************)
(* Requests and backing-store contents                                     *)
(***************************************************************************)
Namespaces == {<<"ns">>}
Names == {<<"foo">>}
Systems == {<<"aws">>}
Versions == {<<"1.0.0">>, <<"1.2.3", Dash, "rc1">>}
OSes == {<<"linux">>}
Arches == {<<"amd64">>}

\* version names a provider package may hold in the backing store
RawVersions ==
    {fullVersion(<<"1.0.0">>, <<"linux">>, <<"amd64">>),
     fullVersion(<<"1.0.0">>, <<"darwin">>, <<"arm64">>),
     fullVersion(<<"2.0.0">>, <<"linux">>, <<"amd64">>),
     fullVersion(<<"1.2.3", Dash, "rc1">>, <<"linux">>, <<"amd64">>),
     <<"bad">>}

\* version names a module package may hold in the backing store
ModuleRawVersions == {<<"1.0.0">>, <<"2.0.0">>, <<"1.2.3", Dash, "rc1">>}

Statuses == {200, 204, 404}

NoOp == [kind |-> "none", namespace |-> <<>>, name |-> <<>>, system |-> <<>>,
         version |-> <<>>, os |-> <<>>, arch |-> <<>>, assetName |-> <<>>]

NoStore == [versions |-> <<>>, files |-> <<>>]
NoNames == [providerBinName |-> <<>>, shaSumName |-> <<>>,
            shaSumSigName |-> <<>>, gpgKeyName |-> <<>>]
NoResult == [val |-> Nil, err |-> Nil]

\* no concurrent requests are modelled outside the specification of them
NoRequests == <<>>
NoContent == [manifest |-> Nil, key |-> Nil]

\* fmt.Errorf("...: %w", err)
Wrap(msg, err) == [kind |-> msg, cause |-> err]

\* NewArtifactRegistryGeneric: scope = "projects/%s/locations/%s"
scope == <<"projects", Slash, "p", Slash, "locations", Slash, "us">>

\* the struct NewArtifactRegistryGeneric returns
NewArtifactRegistryGeneric ==
    [client |-> "cfg.ArtifactRegistryClient", downloader |-> "cfg.Downloader",
     scope |-> scope]

repoPath(repo) == scope \o <<Slash, "repositories", Slash>> \o repo
packagePath(repo, pkg) == repoPath(repo) \o <<Slash, "packages", Slash>> \o pkg

\* the full resource name the backing store gives a version of a package
versionName(repo, pkg, raw) ==
    packagePath(repo, pkg) \o <<Slash, "versions", Slash>> \o raw

\* the full resource name the backing store gives a file of a repository
fileResourceName(repo, id) == repoPath(repo) \o <<Slash, "files", Slash>> \o id

\* what the listing API answers for the page with token t of the list all:
\* the page's items and the token of the next page (0: no further page)
PageOf(all, t) ==
    LET from == t * MaxPageLen + 1
        to == IF from + MaxPageLen - 1 < Len(all) THEN from + MaxPageLen - 1
              ELSE Len(all)
    IN  [items |-> SubSeq(all, from, to),
         next |-> IF to < Len(all) THEN t + 1 ELSE 0]

\* iter.PageInfo().Token == "" after the loop over iter.All()
iteratorDoneAfterFirstPage(token) == TRUE

iteratorDone(token) == token = 0

ListingError == [kind |-> "listing transport error"]

\* "return nil, fmt.Errorf(...)" inside the loop over the iterator, reached
\* with the items collected so far
iterationErrorKeepsCollected(msg, collected) ==
    [val |-> [kind |-> "partial", items |-> collected],
     err |-> Wrap(msg, ListingError)]

iterationError(msg, collected) ==
    [val |-> Nil, err |-> Wrap(msg, ListingError)]

Init ==
    /\ pc = "idle"
    /\ op = NoOp
    /\ cancelled = FALSE
    /\ store = NoStore
    /\ calls = <<>>
    /\ bodies = <<>>
    /\ pageToken = 0
    /\ fullVersions = <<>>
    /\ vs = <<>>
    /\ files = <<>>
    /\ names = NoNames
    /\ shaSums = EmptyMap
    /\ keys = <<>>
    /\ stream = 0
    /\ content = NoContent
    /\ result = NoResult
    /\ logged = <<>>
    /\ status = 0
    /\ written = 0
    /\ codecIn = Nil
    /\ codecOut = Nil
    /\ fields = NewArtifactRegistryGeneric
    /\ requests = NoRequests

\* the client goes away or the server shuts down: r.Context() is cancelled
Cancel ==
    /\ pc \notin {"idle", "done", "panicked", "codec"}
    /\ ~cancelled
    /\ cancelled' = TRUE
    /\ UNCHANGED <<pc, op, store, calls, bodies, pageToken, fullVersions, vs,
                   files, names, shaSums, keys, stream, content, result,
                   logged, status, written, codecIn, codecOut,
                   fields, requests>>

(***************************************************************************)
(* Provider versions: server.go:171-193, artifactregistry.go:44-79         *)
(***************************************************************************)
\* Registry.ProviderVersions up to the call of ListProviderVersions
ProviderVersionsRoute ==
    /\ pc = "idle"
    /\ \E ns \in Namespaces, n \in Names :
          op' = [NoOp EXCEPT !.kind = "ProviderVersions", !.namespace = ns, !.name = n]
    /\ \E all \in SeqsUpTo(RawVersions, MaxVersions) :
          store' = [store EXCEPT !.versions = all]
    /\ pageToken' = 0
    /\ fullVersions' = <<>>
    /\ pc' = "ListProviderVersions"
    /\ UNCHANGED <<cancelled, calls, bodies, vs, files, names, shaSums, keys,
                   stream, content, result, logged, status, written,
                   codecIn, codecOut,
                   fields, requests>>

\* what ListProviderVersions returns after mapVersions returned mv
ListProviderVersionsReturnsJoined(mv) ==
    [val |-> mv.val, err |-> mv.err,
     logged |-> IF mv.err # Nil THEN <<mv.err>> ELSE <<>>]

ListProviderVersionsReturn(mv) ==
    [val |-> mv.val, err |-> Nil,
     logged |-> IF mv.err # Nil THEN <<mv.err>> ELSE <<>>]

\* One listing call of ListProviderVersions with the items it yields. The
\* iterator follows the continuation tokens itself; when it is exhausted
\* its PageInfo().Token is empty and the outer loop ends.
ListProviderVersions ==
    /\ pc = "ListProviderVersions"
    /\ LET parent == packagePath(op.namespace, op.name)
           call == [api |-> "ListVersions", parent |-> parent, pageToken |-> pageToken]
       IN  \E ok \in (IF cancelled THEN {FALSE} ELSE BOOLEAN) :
             IF ~ok
             THEN /\ calls' = Append(calls, call @@ [ok |-> FALSE, ctxDone |-> cancelled])
                  /\ result' = iterationError("failed to iterate over versions", fullVersions)
                  /\ pc' = "returned"
                  /\ UNCHANGED <<pageToken, fullVersions, logged>>
             ELSE LET page == PageOf(store.versions, pageToken)
                      got == fullVersions \o
                                 [i \in DOMAIN page.items |->
                                     Base(versionName(op.namespace, op.name, page.items[i]))]
                  IN  /\ calls' = Append(calls, call @@ [ok |-> TRUE, ctxDone |-> cancelled])
                      /\ fullVersions' = got
                      /\ pageToken' = page.next
                      /\ IF iteratorDone(page.next)
                         THEN \E order \in RangeOrders(mapVersionsLoop(got, EmptyMap, Nil).m) :
                                LET ret == ListProviderVersionsReturn(mapVersions(got, order))
                                IN  /\ result' = [val |-> ret.val, err |-> ret.err]
                                    /\ logged' = logged \o ret.logged
                                    /\ pc' = "returned"
                         ELSE /\ pc' = "ListProviderVersions"
                              /\ UNCHANGED <<result, logged>>
    /\ UNCHANGED <<op, cancelled, store, bodies, vs, files, names, shaSums,
                   keys, stream, content, status, written, codecIn, codecOut,
                   fields, requests>>

\* Registry.ProviderVersions after ListProviderVersions returned
ProviderVersions ==
    /\ pc = "returned"
    /\ op.kind = "ProviderVersions"
    /\ status' = IF result.err # Nil THEN 404 ELSE 200
    /\ pc' = "done"
    /\ UNCHANGED <<op, cancelled, store, calls, bodies, pageToken, fullVersions,
                   vs, files, names, shaSums, keys, stream, content, result,
                   logged, written, codecIn, codecOut,
                   fields, requests>>

(***************************************************************************)
(* Modules: server.go:121-169, artifactregistry.go:172-216                 *)
(***************************************************************************)
\* the SourceURL ListModuleVersions gives a listed version
moduleSourceURLOfProviderRoute(repo, pkg, version) ==
    <<Slash, "download", Slash, "provider", Slash>> \o repo
        \o <<Slash, "asset", Slash>> \o moduleFileName(pkg, version)

moduleSourceURL(repo, pkg, version) ==
    <<Slash, "download", Slash, "module", Slash>> \o repo
        \o <<Slash, "asset", Slash>> \o moduleFileName(pkg, version)

\* Registry.ModuleVersions up to the call of ListModuleVersions
ModuleVersionsRoute ==
    /\ pc = "idle"
    /\ \E ns \in Namespaces, n \in Names, sys \in Systems :
          op' = [NoOp EXCEPT !.kind = "ModuleVersions", !.namespace = ns,
                             !.name = n, !.system = sys]
    /\ \E all \in SeqsUpTo(ModuleRawVersions, MaxVersions) :
          store' = [store EXCEPT !.versions = all]
    /\ pageToken' = 0
    /\ vs' = <<>>
    /\ pc' = "ListModuleVersions"
    /\ UNCHANGED <<cancelled, calls, bodies, fullVersions, files, names,
                   shaSums, keys, stream, content, result, logged, status,
                   written, codecIn, codecOut,
                   fields, requests>>

\* One listing call of ListModuleVersions with the items it yields
ListModuleVersions ==
    /\ pc = "ListModuleVersions"
    /\ LET repo == op.namespace
           pkg == modulePkg(op.name, op.system)
           call == [api |-> "ListVersions", parent |-> packagePath(repo, pkg),
                    pageToken |-> pageToken]
       IN  \E ok \in (IF cancelled THEN {FALSE} ELSE BOOLEAN) :
             IF ~ok
             THEN /\ calls' = Append(calls, call @@ [ok |-> FALSE, ctxDone |-> cancelled])
                  /\ result' = iterationError("failed to iterate over versions", vs)
                  /\ pc' = "returned"
                  /\ UNCHANGED <<pageToken, vs>>
             ELSE LET page == PageOf(store.versions, pageToken)
                      got == vs \o
                                 [i \in DOMAIN page.items |->
                                     LET version == Base(versionName(repo, pkg, page.items[i]))
                                     IN  [Version |-> version,
                                          SourceURL |-> moduleSourceURL(repo, pkg, version)]]
                  IN  /\ calls' = Append(calls, call @@ [ok |-> TRUE, ctxDone |-> cancelled])
                      /\ vs' = got
                      /\ pageToken' = page.next
                      /\ IF iteratorDone(page.next)
                         THEN /\ result' = [val |-> [kind |-> "ModuleVersions", list |-> got],
                                            err |-> Nil]
                              /\ pc' = "returned"
                         ELSE /\ pc' = "ListModuleVersions"
                              /\ UNCHANGED result
    /\ UNCHANGED <<op, cancelled, store, bodies, fullVersions, files, names,
                   shaSums, keys, stream, content, logged, status, written,
                   codecIn, codecOut,
                   fields, requests>>

\* Registry.ModuleVersions after ListModuleVersions returned
ModuleVersions ==
    /\ pc = "returned"
    /\ op.kind = "ModuleVersions"
    /\ status' = IF result.err # Nil THEN 404 ELSE 200
    /\ pc' = "done"
    /\ UNCHANGED <<op, cancelled, store, calls, bodies, pageToken, fullVersions,
                   vs, files, names, shaSums, keys, stream, content, result,
                   logged, written, codecIn, codecOut,
                   fields, requests>>

GetModuleVersionRejectsPreRelease(namespace, name, system, version) ==
    LET repo == namespace
        pkg == modulePkg(name, system)
    IN  IF Count(version, Dash) > 0
        THEN [val |-> Nil, err |-> InvalidVersionFormat(version)]
        ELSE [val |-> [kind |-> "ModuleVersion",
                       Version |-> version,
                       SourceURL |-> <<Slash, "download", Slash, "module", Slash>> \o repo
                                        \o <<Slash, "asset", Slash>>
                                        \o moduleFileName(pkg, version)],
              err |-> Nil]

GetModuleVersion(namespace, name, system, version) ==
    LET repo == namespace
        pkg == modulePkg(name, system)
    IN  [val |-> [kind |-> "ModuleVersion",
                  Version |-> version,
                  SourceURL |-> <<Slash, "download", Slash, "module", Slash>> \o repo
                                   \o <<Slash, "asset", Slash>>
                                   \o moduleFileName(pkg, version)],
         err |-> Nil]

\* Registry.ModuleDownload with its call of GetModuleVersion
ModuleDownload ==
    /\ pc = "idle"
    /\ \E ns \in Namespaces, n \in Names, sys \in Systems, v \in ModuleRawVersions :
          /\ op' = [NoOp EXCEPT !.kind = "ModuleDownload", !.namespace = ns,
                                !.name = n, !.system = sys, !.version = v]
          /\ result' = GetModuleVersion(ns, n, sys, v)
    /\ status' = IF result'.err # Nil THEN 404 ELSE 204
    /\ pc' = "done"
    /\ UNCHANGED <<cancelled, store, calls, bodies, pageToken, fullVersions, vs,
                   files, names, shaSums, keys, stream, content, logged,
                   written, codecIn, codecOut,
                   fields, requests>>

(***************************************************************************)
(* Downloader.Download                                                     *)
(***************************************************************************)
\* what the upstream can answer to a GET: no response at all (the request
\* could not be built or executed) or a response with a status code; a
\* cancelled context lets no request through
ResponsesIgnoringCancel(isCancelled) ==
    {[kind |-> "error", status |-> 0]}
        \cup {[kind |-> "response", status |-> st] : st \in Statuses}

Responses(isCancelled) ==
    IF isCancelled THEN {[kind |-> "error", status |-> 0]}
    ELSE {[kind |-> "error", status |-> 0]}
             \cup {[kind |-> "response", status |-> st] : st \in Statuses}

downloadURL(fullFileName) ==
    <<"https:", Slash, Slash, "artifactregistry.googleapis.com", Slash,
      "download", Slash, "v1", Slash>> \o fullFileName

\* "%s/repositories/%s/files/%s:download"
downloadName(repo, fileName) ==
    repoPath(repo) \o <<Slash, "files", Slash>> \o fileName \o <<":download">>

\* Download given the upstream's answer: whether a response body was opened,
\* whether it is returned to the caller, and the error
DownloadReturnsBodyOfAnyResponse(resp) ==
    IF resp.kind = "error"
    THEN [opened |-> FALSE, returned |-> FALSE,
          err |-> [kind |-> "failed to execute download request", code |-> 0]]
    ELSE IF resp.status # 200
    THEN [opened |-> TRUE, returned |-> TRUE,
          err |-> [kind |-> "unexpected download status code", code |-> resp.status]]
    ELSE [opened |-> TRUE, returned |-> TRUE, err |-> Nil]

Download(resp) ==
    IF resp.kind = "error"
    THEN [opened |-> FALSE, returned |-> FALSE,
          err |-> [kind |-> "failed to execute download request", code |-> 0]]
    ELSE IF resp.status # 200
    THEN [opened |-> TRUE, returned |-> FALSE,
          err |-> [kind |-> "unexpected download status code", code |-> resp.status]]
    ELSE [opened |-> TRUE, returned |-> TRUE, err |-> Nil]

\* the log entry of a Download call and the bodies after it
downloadCall(fullFileName, resp, d) ==
    [api |-> "Download", url |-> downloadURL(fullFileName), resp |-> resp,
     opened |-> d.opened, returned |-> d.returned, err |-> d.err,
     ctxDone |-> cancelled]

bodiesAfter(d) == IF d.opened THEN Append(bodies, "open") ELSE bodies

\* r.Close()
Close(bs, r) == [bs EXCEPT ![r] = "closed"]

(***************************************************************************)
(* Provider download: server.go:195-220, artifactregistry.go:81-161        *)
(***************************************************************************)
binarySuffix(os, arch) == <<"_">> \o os \o <<"_">> \o arch \o <<".zip">>

\* the name of the provider archive as release tooling writes it in the
\* checksum manifest
releaseName(name, version, os, arch) ==
    <<"terraform", Dash, "provider", Dash>> \o name \o <<"_">> \o version
        \o binarySuffix(os, arch)

\* file ids the package of a request may hold in the backing store
FileUniverse(name, version, os, arch) ==
    LET namePrefix == providerFileNamePrefix(name, fullVersion(version, os, arch), version)
    IN  << namePrefix \o binarySuffix(os, arch),
           namePrefix \o <<"_SHA256SUMS">>,
           namePrefix \o <<"_SHA256SUMS.sig">>,
           namePrefix \o <<"_gpg-public-key.pem">>,
           providerFileNamePrefix(name, fullVersion(version, <<"darwin">>, <<"arm64">>), version)
               \o binarySuffix(<<"darwin">>, <<"arm64">>) >>

\* the subsequences of s
SubSeqs(s) ==
    {SelectSeq([i \in DOMAIN s |-> [i |-> i, x |-> s[i]]], LAMBDA e : e.i \in I) : I \in SUBSET DOMAIN s}

FileLists(name, version, os, arch) ==
    LET u == FileUniverse(name, version, os, arch)
    IN  {[i \in DOMAIN l |-> l[i].x] : l \in SubSeqs(u)}

\* Registry.ProviderDownload up to the call of GetProviderVersion
ProviderDownloadRoute ==
    /\ pc = "idle"
    /\ \E ns \in Namespaces, n \in Names, v \in Versions, o \in OSes, a \in Arches :
          /\ op' = [NoOp EXCEPT !.kind = "ProviderDownload", !.namespace = ns,
                                !.name = n, !.version = v, !.os = o, !.arch = a]
          /\ \E l \in FileLists(n, v, o, a) :
                store' = [store EXCEPT
                             !.files = [i \in DOMAIN l |-> fileResourceName(ns, l[i])]]
    /\ pageToken' = 0
    /\ files' = <<>>
    /\ pc' = "ListFiles"
    /\ UNCHANGED <<cancelled, calls, bodies, fullVersions, vs, names, shaSums,
                   keys, stream, content, result, logged, status, written,
                   codecIn, codecOut,
                   fields, requests>>

\* the loop with the switch over the files' base names
RECURSIVE classify(_, _, _, _, _)
classify(fs, namePrefix, os, arch, acc) ==
    IF fs = <<>> THEN acc
    ELSE LET fn == Base(Head(fs))
             next ==
                CASE fn = namePrefix \o binarySuffix(os, arch) ->
                        [acc EXCEPT !.providerBinName = fn]
                  [] fn = namePrefix \o <<"_SHA256SUMS">> ->
                        [acc EXCEPT !.shaSumName = fn]
                  [] fn = namePrefix \o <<"_SHA256SUMS.sig">> ->
                        [acc EXCEPT !.shaSumSigName = fn]
                  [] fn = namePrefix \o <<"_gpg-public-key.pem">> ->
                        [acc EXCEPT !.gpgKeyName = fn]
                  [] OTHER -> acc
         IN  classify(Tail(fs), namePrefix, os, arch, next)

\* the three checks after the loop: the error of the first missing file
missingAssetSkipsManifest(ns, fullVer) ==
    IF ns.providerBinName = <<>>
    THEN [kind |-> "provider binary not found", fullVer |-> fullVer]
    ELSE IF ns.shaSumSigName = <<>>
    THEN [kind |-> "SHA256SUMS.sig not found", fullVer |-> fullVer]
    ELSE Nil

missingAsset(ns, fullVer) ==
    IF ns.providerBinName = <<>>
    THEN [kind |-> "provider binary not found", fullVer |-> fullVer]
    ELSE IF ns.shaSumName = <<>>
    THEN [kind |-> "SHA256SUMS not found", fullVer |-> fullVer]
    ELSE IF ns.shaSumSigName = <<>>
    THEN [kind |-> "SHA256SUMS.sig not found", fullVer |-> fullVer]
    ELSE Nil

\* One ListFiles call of GetProviderVersion with the files it yields; when
\* the iterator is exhausted, the classification of the files and the
\* checks for the required ones
ListFiles ==
    /\ pc = "ListFiles"
    /\ LET repo == op.namespace
           pkg == op.name
           fullVer == fullVersion(op.version, op.os, op.arch)
           call == [api |-> "ListFiles", parent |-> repoPath(repo),
                    filter |-> packagePath(repo, pkg), pageToken |-> pageToken]
       IN  \E ok \in (IF cancelled THEN {FALSE} ELSE BOOLEAN) :
             IF ~ok
             THEN /\ calls' = Append(calls, call @@ [ok |-> FALSE, ctxDone |-> cancelled])
                  /\ result' = iterationError("failed to iterate over files", files)
                  /\ pc' = "returned"
                  /\ UNCHANGED <<pageToken, files, names>>
             ELSE LET page == PageOf(store.files, pageToken)
                      got == files \o page.items
                      found == classify(got, providerFileNamePrefix(pkg, fullVer, op.version),
                                        op.os, op.arch, NoNames)
                  IN  /\ calls' = Append(calls, call @@ [ok |-> TRUE, ctxDone |-> cancelled])
                      /\ files' = got
                      /\ pageToken' = page.next
                      /\ IF ~iteratorDone(page.next)
                         THEN /\ pc' = "ListFiles"
                              /\ UNCHANGED <<names, result>>
                         ELSE /\ names' = found
                              /\ IF missingAsset(found, fullVer) # Nil
                                 THEN /\ result' = [val |-> Nil,
                                                    err |-> missingAsset(found, fullVer)]
                                      /\ pc' = "returned"
                                 ELSE /\ pc' = "parseSHASumFile"
                                      /\ UNCHANGED result
    /\ UNCHANGED <<op, cancelled, store, bodies, fullVersions, vs, shaSums,
                   keys, stream, content, logged, status, written, codecIn,
                   codecOut,
                   fields, requests>>

(***************************************************************************)
(* parseSHASumFile (artifactregistry.go:218-238)                           *)
(***************************************************************************)
\* lines a checksum manifest of the request's package may contain
ManifestLines(name, version, os, arch) ==
    LET short == releaseName(name, version, os, arch)
        full == FileUniverse(name, version, os, arch)[1]
    IN  { <<"h1", Space, Space>> \o short,
          <<"h2", Space>> \o full,
          <<"h3", Space, Space>> \o releaseName(name, version, <<"darwin">>, <<"arm64">>),
          <<"h4", Space, ".zip">>,
          <<>>,
          <<"h6">>,
          <<"h7", Space>> \o short \o <<Space, "extra">>,
          <<"h8", Space, "dist", Slash>> \o full }

\* the loop body for every line the scanner yields; a line with fewer than
\* two fields makes parts[0] or parts[1] panic
RECURSIVE scanLines(_, _)
scanLines(lines, sums) ==
    IF lines = <<>> THEN [panic |-> FALSE, sums |-> sums]
    ELSE LET parts == Fields(Head(lines))
         IN  IF Len(parts) < 2 THEN [panic |-> TRUE, sums |-> sums]
             ELSE LET hash == parts[1]
                      fn == parts[2]
                  IN  scanLines(Tail(lines),
                                IF fn \in DOMAIN sums
                                THEN [sums EXCEPT ![fn] = hash]
                                ELSE sums @@ (fn :> hash))

\* parseSHASumFile up to the return of Download
parseSHASumFile ==
    /\ pc = "parseSHASumFile"
    /\ \E resp \in Responses(cancelled) :
          LET d == Download(resp)
          IN  /\ calls' = Append(calls,
                     downloadCall(downloadName(op.namespace, names.shaSumName), resp, d))
              /\ bodies' = bodiesAfter(d)
              /\ IF d.err # Nil
                 THEN /\ result' = [val |-> Nil,
                                    err |-> Wrap("failed to parse SHA256SUMS",
                                                 Wrap("failed to download", d.err))]
                      /\ pc' = "returned"
                      /\ UNCHANGED stream
                 ELSE /\ stream' = Len(bodies')
                      /\ pc' = "scanSHASumFile"
                      /\ UNCHANGED result
    /\ UNCHANGED <<op, cancelled, store, pageToken, fullVersions, vs, files,
                   names, shaSums, keys, content, logged, status, written,
                   codecIn, codecOut,
                   fields, requests>>

\* parseSHASumFile from the scanner loop to its return. The body delivers
\* the lines of the manifest, or fails after some of them: Scan() then
\* returns false as at the end of the input, and Err() is not consulted.
\* The deferred Close runs on return and on panic.
scanSHASumFile ==
    /\ pc = "scanSHASumFile"
    /\ \E lines \in SeqsUpTo(ManifestLines(op.name, op.version, op.os, op.arch), MaxLines),
          readErr \in BOOLEAN :
          LET scanned == scanLines(lines, EmptyMap)
          IN  /\ content' = [content EXCEPT
                                !.manifest = [lines |-> lines, readErr |-> readErr]]
              /\ bodies' = Close(bodies, stream)
              /\ stream' = 0
              /\ IF scanned.panic
                 THEN /\ pc' = "panicked"
                      /\ UNCHANGED shaSums
                 ELSE /\ shaSums' = scanned.sums
                      /\ pc' = "parseGPGKeys"
    /\ UNCHANGED <<op, cancelled, store, calls, pageToken, fullVersions, vs,
                   files, names, keys, result, logged, status, written,
                   codecIn, codecOut,
                   fields, requests>>

(***************************************************************************)
(* parseGPGKeys (artifactregistry.go:240-270), findSHA (272-279)           *)
(***************************************************************************)
KeyPackets == {"pkt:A", "pkt:B"}
KeyIdString == ("pkt:A" :> "000000000000000A") @@ ("pkt:B" :> "000000000000000B")

\* contents a key file may have
KeyFiles ==
    { <<"BEGIN PGP PUBLIC KEY BLOCK", "Comment: release key", "pkt:A", "END">>,
      <<"BEGIN PGP PUBLIC KEY BLOCK", "pkt:A", "pkt:B", "END">>,
      <<"BEGIN PGP PUBLIC KEY BLOCK", "END">>,
      <<"BEGIN PGP SIGNATURE", "pkt:A", "END">>,
      <<"not armored">> }

\* openpgp.ReadArmoredKeyRing: the entities of the armored key block
ReadArmoredKeyRing(all) ==
    IF Len(all) < 2 \/ all[Len(all)] # "END"
           \/ Head(all) \notin {"BEGIN PGP PUBLIC KEY BLOCK", "BEGIN PGP SIGNATURE"}
    THEN [els |-> <<>>, err |-> [kind |-> "no armored data found"]]
    ELSE IF Head(all) # "BEGIN PGP PUBLIC KEY BLOCK"
    THEN [els |-> <<>>, err |-> [kind |-> "expected public or private key block"]]
    ELSE [els |-> SelectSeq(all, LAMBDA x : x \in KeyPackets), err |-> Nil]

\* what serializing the entity again would give
Serialize(key) == <<"BEGIN PGP PUBLIC KEY BLOCK", key, "END">>

\* parseGPGKeys after io.ReadAll returned all
gpgKeysOfFirstEntity(all) ==
    LET r == ReadArmoredKeyRing(all)
    IN  IF r.err # Nil THEN [keys |-> <<>>, err |-> r.err]
        ELSE IF Len(r.els) = 0
        THEN [keys |-> <<>>,
              err |-> [kind |-> "GPG Key contains entities, wanted 1", n |-> Len(r.els)]]
        ELSE [keys |-> << [KeyID |-> KeyIdString[r.els[1]], ASCIIArmor |-> all,
                           TrustSignature |-> <<>>, Source |-> <<>>,
                           SourceURL |-> <<>>] >>,
              err |-> Nil]

gpgKeysOf(all) ==
    LET r == ReadArmoredKeyRing(all)
    IN  IF r.err # Nil THEN [keys |-> <<>>, err |-> r.err]
        ELSE IF Len(r.els) # 1
        THEN [keys |-> <<>>,
              err |-> [kind |-> "GPG Key contains entities, wanted 1", n |-> Len(r.els)]]
        ELSE [keys |-> << [KeyID |-> KeyIdString[r.els[1]], ASCIIArmor |-> all,
                           TrustSignature |-> <<>>, Source |-> <<>>,
                           SourceURL |-> <<>>] >>,
              err |-> Nil]

\* findSHA visiting the map in the given order
RECURSIVE findSHAReturnsTargetName(_, _, _)
findSHAReturnsTargetName(sums, fileName, order) ==
    IF order = <<>>
    THEN [sha |-> <<>>, name |-> <<>>,
          err |-> [kind |-> "failed to find SHA", fileName |-> fileName]]
    ELSE IF HasSuffix(fileName, Head(order))
    THEN [sha |-> sums[Head(order)], name |-> fileName, err |-> Nil]
    ELSE findSHAReturnsTargetName(sums, fileName, Tail(order))

RECURSIVE findSHAEntryEndsWithTarget(_, _, _)
findSHAEntryEndsWithTarget(sums, fileName, order) ==
    IF order = <<>>
    THEN [sha |-> <<>>, name |-> <<>>,
          err |-> [kind |-> "failed to find SHA", fileName |-> fileName]]
    ELSE IF HasSuffix(Head(order), fileName)
    THEN [sha |-> sums[Head(order)], name |-> Head(order), err |-> Nil]
    ELSE findSHAEntryEndsWithTarget(sums, fileName, Tail(order))

RECURSIVE findSHA(_, _, _)
findSHA(sums, fileName, order) ==
    IF order = <<>>
    THEN [sha |-> <<>>, name |-> <<>>,
          err |-> [kind |-> "failed to find SHA", fileName |-> fileName]]
    ELSE IF HasSuffix(fileName, Head(order))
    THEN [sha |-> sums[Head(order)], name |-> Head(order), err |-> Nil]
    ELSE findSHA(sums, fileName, Tail(order))

providerAssetURLWithoutRepo(repo, fileName) ==
    <<Slash, "download", Slash, "provider", Slash, "asset", Slash>> \o fileName

providerAssetURL(repo, fileName) ==
    <<Slash, "download", Slash, "provider", Slash>> \o repo
        \o <<Slash, "asset", Slash>> \o fileName

\* parseGPGKeys up to the return of Download; it is called with whatever
\* gpgKeyName holds, the empty string when no key file was listed
parseGPGKeys ==
    /\ pc = "parseGPGKeys"
    /\ \E resp \in Responses(cancelled) :
          LET d == Download(resp)
          IN  /\ calls' = Append(calls,
                     downloadCall(downloadName(op.namespace, names.gpgKeyName), resp, d))
              /\ bodies' = bodiesAfter(d)
              /\ IF d.err # Nil
                 THEN /\ result' = [val |-> Nil,
                                    err |-> Wrap("failed to parse GPG keys",
                                                 Wrap("failed to download", d.err))]
                      /\ pc' = "returned"
                      /\ UNCHANGED stream
                 ELSE /\ stream' = Len(bodies')
                      /\ pc' = "readGPGKeys"
                      /\ UNCHANGED result
    /\ UNCHANGED <<op, cancelled, store, pageToken, fullVersions, vs, files,
                   names, shaSums, keys, content, logged, status, written,
                   codecIn, codecOut,
                   fields, requests>>

\* parseGPGKeys from io.ReadAll to its return, and the rest of
\* GetProviderVersion: the URLs, findSHA and the descriptor
readGPGKeys ==
    /\ pc = "readGPGKeys"
    /\ \E all \in KeyFiles, readErr \in BOOLEAN :
          LET parsed == IF readErr
                        THEN [keys |-> <<>>, err |-> [kind |-> "read error"]]
                        ELSE gpgKeysOf(all)
              repo == op.namespace
          IN  /\ content' = [content EXCEPT !.key = [all |-> all, readErr |-> readErr]]
              /\ bodies' = Close(bodies, stream)
              /\ stream' = 0
              /\ keys' = parsed.keys
              /\ IF parsed.err # Nil
                 THEN result' = [val |-> Nil,
                                 err |-> Wrap("failed to parse GPG keys", parsed.err)]
                 ELSE \E order \in RangeOrders(shaSums) :
                         LET found == findSHA(shaSums, names.providerBinName, order)
                         IN  IF found.err # Nil
                             THEN result' = [val |-> Nil, err |-> found.err]
                             ELSE result' =
                                    [val |-> [kind |-> "Provider",
                                              Protocols |-> <<"5.0">>,
                                              OS |-> op.os,
                                              Arch |-> op.arch,
                                              Filename |-> found.name,
                                              DownloadURL |-> providerAssetURL(repo, names.providerBinName),
                                              SHASumsURL |-> providerAssetURL(repo, names.shaSumName),
                                              SHASumsSignatureURL |-> providerAssetURL(repo, names.shaSumSigName),
                                              SHASum |-> found.sha,
                                              SigningKeys |-> parsed.keys],
                                     err |-> Nil]
    /\ pc' = "returned"
    /\ UNCHANGED <<op, cancelled, store, calls, pageToken, fullVersions, vs,
                   files, names, shaSums, logged, status, written, codecIn,
                   codecOut,
                   fields, requests>>

\* Registry.ProviderDownload after GetProviderVersion returned
ProviderDownload ==
    /\ pc = "returned"
    /\ op.kind = "ProviderDownload"
    /\ status' = IF result.err # Nil THEN 404 ELSE 200
    /\ pc' = "done"
    /\ UNCHANGED <<op, cancelled, store, calls, bodies, pageToken, fullVersions,
                   vs, files, names, shaSums, keys, stream, content, result,
                   logged, written, codecIn, codecOut,
                   fields, requests>>

(***************************************************************************)
(* Asset download: server.go:222-247, artifactregistry.go:163-170          *)
(***************************************************************************)
AssetNames ==
    { FileUniverse(<<"foo">>, <<"1.0.0">>, <<"linux">>, <<"amd64">>)[1],
      moduleFileName(modulePkg(<<"foo">>, <<"aws">>), <<"1.0.0">>) }

\* Registry.ProviderAssetDownload up to the call of GetProviderAsset
ProviderAssetDownloadRoute ==
    /\ pc = "idle"
    /\ \E ns \in Namespaces, f \in AssetNames :
          op' = [NoOp EXCEPT !.kind = "ProviderAssetDownload", !.namespace = ns,
                             !.assetName = f]
    /\ pc' = "GetProviderAsset"
    /\ UNCHANGED <<cancelled, store, calls, bodies, pageToken, fullVersions, vs,
                   files, names, shaSums, keys, stream, content, result,
                   logged, status, written, codecIn, codecOut,
                   fields, requests>>

GetProviderAsset ==
    /\ pc = "GetProviderAsset"
    /\ \E resp \in Responses(cancelled) :
          LET d == Download(resp)
          IN  /\ calls' = Append(calls,
                     downloadCall(downloadName(op.namespace, op.assetName), resp, d))
              /\ bodies' = bodiesAfter(d)
              /\ IF d.err # Nil
                 THEN result' = [val |-> Nil, err |-> Wrap("failed to download", d.err)]
                 ELSE result' = [val |-> [kind |-> "stream", body |-> Len(bodies')],
                                 err |-> Nil]
    /\ pc' = "returned"
    /\ UNCHANGED <<op, cancelled, store, pageToken, fullVersions, vs, files,
                   names, shaSums, keys, stream, content, logged, status,
                   written, codecIn, codecOut,
                   fields, requests>>

\* Registry.ProviderAssetDownload after GetProviderAsset returned: io.Copy
\* writes some chunks and ends at the end of the body or with an error.
\* http.Error sets the status only if nothing was written before.
ProviderAssetDownload ==
    /\ pc = "returned"
    /\ op.kind = "ProviderAssetDownload"
    /\ IF result.err # Nil
       THEN /\ status' = 404
            /\ UNCHANGED <<bodies, written>>
       ELSE \E n \in 0..MaxChunks, copyErr \in BOOLEAN :
               /\ written' = n
               /\ status' = IF copyErr /\ n = 0 THEN 500 ELSE 200
               /\ bodies' = Close(bodies, result.val.body)
    /\ pc' = "done"
    /\ UNCHANGED <<op, cancelled, store, calls, pageToken, fullVersions, vs,
                   files, names, shaSums, keys, stream, content, result,
                   logged, codecIn, codecOut,
                   fields, requests>>

\* the server takes the next request
NextRequest ==
    /\ pc \in {"done", "panicked"}
    /\ pc' = "idle"
    /\ op' = NoOp
    /\ cancelled' = FALSE
    /\ store' = NoStore
    /\ calls' = <<>>
    /\ bodies' = <<>>
    /\ pageToken' = 0
    /\ fullVersions' = <<>>
    /\ vs' = <<>>
    /\ files' = <<>>
    /\ names' = NoNames
    /\ shaSums' = EmptyMap
    /\ keys' = <<>>
    /\ stream' = 0
    /\ content' = NoContent
    /\ result' = NoResult
    /\ logged' = <<>>
    /\ status' = 0
    /\ written' = 0
    /\ UNCHANGED <<codecIn, codecOut,
                   fields, requests>>

(***************************************************************************)
(* The version codec on its own                                            *)
(***************************************************************************)
CodecVersions == {<<"1.0.0">>, <<"1.2.3", Dash, "rc1">>, <<"2.0.0", Dash, "beta", Dash, "1">>}
CodecPlatforms == {<<"linux">>, <<"darwin">>, <<"amd64">>}
CodecSymbols == {Dash, "a", "b"}

CodecInputs ==
    {[kind |-> "triple", version |-> v, os |-> o, arch |-> a, raw |-> <<>>] :
        v \in CodecVersions, o \in CodecPlatforms, a \in CodecPlatforms}
    \cup {[kind |-> "raw", version |-> <<>>, os |-> <<>>, arch |-> <<>>, raw |-> r] :
        r \in SeqsUpTo(CodecSymbols, MaxRawLen)}

InitCodec ==
    /\ pc = "codec"
    /\ op = NoOp
    /\ cancelled = FALSE
    /\ store = NoStore
    /\ calls = <<>>
    /\ bodies = <<>>
    /\ pageToken = 0
    /\ fullVersions = <<>>
    /\ vs = <<>>
    /\ files = <<>>
    /\ names = NoNames
    /\ shaSums = EmptyMap
    /\ keys = <<>>
    /\ stream = 0
    /\ content = NoContent
    /\ result = NoResult
    /\ logged = <<>>
    /\ status = 0
    /\ written = 0
    /\ codecIn \in CodecInputs
    /\ codecOut = Nil
    /\ fields = NewArtifactRegistryGeneric
    /\ requests = NoRequests

\* fullVersion applied to the triple
Encode ==
    /\ pc = "codec"
    /\ codecIn.kind = "triple"
    /\ codecOut = Nil
    /\ codecOut' = [kind |-> "encoded",
                    raw |-> fullVersion(codecIn.version, codecIn.os, codecIn.arch),
                    parsed |-> Nil]
    /\ UNCHANGED <<pc, op, cancelled, store, calls, bodies, pageToken,
                   fullVersions, vs, files, names, shaSums, keys, stream,
                   content, result, logged, status, written, codecIn,
                   fields, requests>>

\* parseFullVersion applied to the raw string or to the encoded triple
Decode ==
    /\ pc = "codec"
    /\ \/ codecIn.kind = "raw" /\ codecOut = Nil
       \/ codecOut.kind = "encoded"
    /\ LET raw == IF codecOut = Nil THEN codecIn.raw ELSE codecOut.raw
       IN  codecOut' = [kind |-> "decoded", raw |-> raw,
                        parsed |-> parseFullVersion(raw)]
    /\ UNCHANGED <<pc, op, cancelled, store, calls, bodies, pageToken,
                   fullVersions, vs, files, names, shaSums, keys, stream,
                   content, result, logged, status, written, codecIn,
                   fields, requests>>

NextCodec == Encode \/ Decode

SpecCodec == InitCodec /\ [][NextCodec]_vars

Next ==
    \/ Cancel
    \/ ProviderVersionsRoute
    \/ ListProviderVersions
    \/ ProviderVersions
    \/ ModuleVersionsRoute
    \/ ListModuleVersions
    \/ ModuleVersions
    \/ ModuleDownload
    \/ ProviderDownloadRoute
    \/ ListFiles
    \/ parseSHASumFile
    \/ scanSHASumFile
    \/ parseGPGKeys
    \/ readGPGKeys
    \/ ProviderDownload
    \/ ProviderAssetDownloadRoute
    \/ GetProviderAsset
    \/ ProviderAssetDownload
    \/ NextRequest

Spec == Init /\ [][Next]_vars

\* the two listing routes alone; the request's goroutine keeps running and
\* every listing call returns, with items or with an error
NextListing ==
    \/ Cancel
    \/ ProviderVersionsRoute
    \/ ListProviderVersions
    \/ ProviderVersions
    \/ ModuleVersionsRoute
    \/ ListModuleVersions
    \/ ModuleVersions
    \/ NextRequest

SpecListing ==
    /\ Init
    /\ [][NextListing]_vars
    /\ WF_vars(ListProviderVersions)
    /\ WF_vars(ListModuleVersions)

(***************************************************************************)
(* Concurrent listing requests on one store instance: every invocation of  *)
(* ListProviderVersions (artifactregistry.go:44-79) or ListModuleVersions  *)
(* (172-208) runs on its own goroutine with its own locals                 *)
(***************************************************************************)
Requests == {1, 2}

\* version names the backing store lists to the concurrent requests
ConcurrentVersions ==
    { <<"1.0.0", Dash, "linux", Dash, "amd64">>,
      <<"1.0.0", Dash, "darwin", Dash, "arm64">> }

\* the locals of an invocation that has not started
NoRequest ==
    [pc |-> "idle", kind |-> "none", namespace |-> <<>>, name |-> <<>>,
     system |-> <<>>, versions |-> <<>>, failAt |-> 0, ncalls |-> 0,
     pageToken |-> 0, collected |-> <<>>, result |-> NoResult]

\* the locals at the start of an invocation: pageToken := "" and an empty
\* slice; versions and failAt are what the backing store will answer (the
\* list it holds and the call it fails, 0 for none)
StartedRequests ==
    { [NoRequest EXCEPT !.pc = "listing", !.kind = k, !.namespace = ns,
                        !.name = n, !.system = sy, !.versions = all,
                        !.failAt = f] :
        k \in {"ProviderVersions", "ModuleVersions"}, ns \in Namespaces,
        n \in Names, sy \in Systems,
        all \in SeqsUpTo(ConcurrentVersions, MaxVersions), f \in 0..2 }

\* the invocation's locals after one listing call made with the page token
\* it reads from its pageToken variable
listingCall(q, token) ==
    LET repo == q.namespace
        pkg == IF q.kind = "ProviderVersions" THEN q.name
               ELSE modulePkg(q.name, q.system)
        k == q.ncalls + 1
    IN  IF q.failAt = k
        THEN {[q EXCEPT !.ncalls = k, !.pc = "returned",
                        !.result = iterationError("failed to iterate over versions",
                                                  q.collected)]}
        ELSE LET page == PageOf(q.versions, token)
                 short == [i \in DOMAIN page.items |->
                              Base(versionName(repo, pkg, page.items[i]))]
                 got == q.collected \o
                           (IF q.kind = "ProviderVersions" THEN short
                            ELSE [i \in DOMAIN short |->
                                    [Version |-> short[i],
                                     SourceURL |-> moduleSourceURL(repo, pkg, short[i])]])
                 n == [q EXCEPT !.ncalls = k, !.collected = got,
                                !.pageToken = page.next]
             IN  IF ~iteratorDone(page.next) THEN {n}
                 ELSE IF q.kind = "ModuleVersions"
                 THEN {[n EXCEPT !.pc = "returned",
                                 !.result = [val |-> [kind |-> "ModuleVersions",
                                                      list |-> got],
                                             err |-> Nil]]}
                 ELSE {[n EXCEPT !.pc = "returned",
                                 !.result =
                                    LET ret == ListProviderVersionsReturn(mapVersions(got, order))
                                    IN  [val |-> ret.val, err |-> ret.err]] :
                         order \in RangeOrders(mapVersionsLoop(got, EmptyMap, Nil).m)}

\* where invocation r keeps its page token: in its own local
pageTokenSharedByAll(r) == 1

pageTokenOf(r) == r

InitConcurrent ==
    /\ pc = "concurrent"
    /\ op = NoOp
    /\ cancelled = FALSE
    /\ store = NoStore
    /\ calls = <<>>
    /\ bodies = <<>>
    /\ pageToken = 0
    /\ fullVersions = <<>>
    /\ vs = <<>>
    /\ files = <<>>
    /\ names = NoNames
    /\ shaSums = EmptyMap
    /\ keys = <<>>
    /\ stream = 0
    /\ content = NoContent
    /\ result = NoResult
    /\ logged = <<>>
    /\ status = 0
    /\ written = 0
    /\ codecIn = Nil
    /\ codecOut = Nil
    /\ fields = NewArtifactRegistryGeneric
    /\ requests = [r \in Requests |-> NoRequest]

\* a handler calls a listing operation of the store
StartListing(r) ==
    /\ pc = "concurrent"
    /\ requests[r].pc = "idle"
    /\ \E q \in StartedRequests :
          requests' = [[requests EXCEPT ![r] = q]
                          EXCEPT ![pageTokenOf(r)].pageToken = 0]
    /\ UNCHANGED <<pc, op, cancelled, store, calls, bodies, pageToken,
                   fullVersions, vs, files, names, shaSums, keys, stream,
                   content, result, logged, status, written, codecIn, codecOut,
                   fields>>

\* one listing call of invocation r
ListingStep(r) ==
    /\ pc = "concurrent"
    /\ requests[r].pc = "listing"
    /\ \E n \in listingCall(requests[r], requests[pageTokenOf(r)].pageToken) :
          requests' = [[requests EXCEPT ![r] = n]
                          EXCEPT ![pageTokenOf(r)].pageToken = n.pageToken]
    /\ UNCHANGED <<pc, op, cancelled, store, calls, bodies, pageToken,
                   fullVersions, vs, files, names, shaSums, keys, stream,
                   content, result, logged, status, written, codecIn, codecOut,
                   fields>>

\* the handler has answered: the invocation's locals are gone
FinishListing(r) ==
    /\ pc = "concurrent"
    /\ requests[r].pc = "returned"
    /\ requests' = [requests EXCEPT ![r] = NoRequest]
    /\ UNCHANGED <<pc, op, cancelled, store, calls, bodies, pageToken,
                   fullVersions, vs, files, names, shaSums, keys, stream,
                   content, result, logged, status, written, codecIn, codecOut,
                   fields>>

NextConcurrent ==
    \/ \E r \in Requests : StartListing(r)
    \/ \E r \in Requests : ListingStep(r)
    \/ \E r \in Requests : FinishListing(r)

SpecConcurrent == InitConcurrent /\ [][NextConcurrent]_vars

(***************************************************************************)
(* Properties                                                              *)
(***************************************************************************)
Returned == pc \in {"returned", "done"}

ListingCalls == {i \in DOMAIN calls : calls[i].api \in {"ListVersions", "ListFiles"}}
DownloadCalls == {i \in DOMAIN calls : calls[i].api = "Download"}

\* the operation has returned and none of its listing calls failed
ListingSucceeded(kind) ==
    /\ op.kind = kind
    /\ Returned
    /\ \A i \in ListingCalls : calls[i].ok

\* a raw version string decodes iff it holds exactly two delimiters
Decodable(raw) == Count(raw, Dash) = 2
Undecodable(raws) == SelectSeq(raws, LAMBDA r : ~Decodable(r))

StoredIds == {Base(store.files[i]) : i \in DOMAIN store.files}
RoleId(k) == FileUniverse(op.name, op.version, op.os, op.arch)[k]
HasBinary == RoleId(1) \in StoredIds
HasManifest == RoleId(2) \in StoredIds
HasSignature == RoleId(3) \in StoredIds
HasKeyFile == RoleId(4) \in StoredIds

IsKeyDownload(c) ==
    /\ c.api = "Download"
    /\ HasSuffix(c.url, <<"_gpg-public-key.pem", ":download">>)
          \/ HasSuffix(c.url, <<"files", Slash, ":download">>)

\* C2 as stated: with binary, manifest (holding an entry for the binary) and
\* signature present but no key file, GetProviderVersion succeeds with an
\* empty signing-key list and attempts no key-file download.
C2_MissingKeyFileTolerated ==
    ( /\ ListingSucceeded("ProviderDownload")
      /\ HasBinary /\ HasManifest /\ HasSignature /\ ~HasKeyFile
      /\ content.manifest # Nil
      /\ \E k \in DOMAIN shaSums : HasSuffix(names.providerBinName, k) )
    => /\ result.err = Nil
       /\ result.val # Nil
       /\ result.val.SigningKeys = <<>>
       /\ Cardinality(DownloadCalls) = 1
       /\ \A i \in DownloadCalls : ~IsKeyDownload(calls[i])

\* C3: when the files were listed and the binary, the manifest or the
\* signature of the requested (version, os, arch) is not among them,
\* GetProviderVersion returns no descriptor and an error naming a role that
\* is missing, and it has issued no download.
C3_MissingRequiredAssetFails ==
    ( /\ ListingSucceeded("ProviderDownload")
      /\ ~(HasBinary /\ HasManifest /\ HasSignature) )
    => /\ result.val = Nil
       /\ result.err.kind \in {"provider binary not found", "SHA256SUMS not found",
                               "SHA256SUMS.sig not found"}
       /\ result.err.kind = "provider binary not found" => ~HasBinary
       /\ result.err.kind = "SHA256SUMS not found" => ~HasManifest
       /\ result.err.kind = "SHA256SUMS.sig not found" => ~HasSignature
       /\ DownloadCalls = {}

C3_Witness ==
    /\ ListingSucceeded("ProviderDownload")
    /\ HasBinary /\ ~HasManifest /\ HasSignature
    /\ result.err.kind = "SHA256SUMS not found"
    /\ DownloadCalls = {}

\* C4 as stated: decoding the encoding of (version, os, arch) gives back
\* exactly (version, os, arch) with no error, pre-release versions included.
C4_RoundTrip ==
    (codecIn.kind = "triple" /\ codecOut.kind = "decoded") =>
        codecOut.parsed = [version |-> codecIn.version, os |-> codecIn.os,
                           arch |-> codecIn.arch, err |-> Nil]

\* C5: parseFullVersion fails iff the raw string does not split into
\* exactly three fields at the delimiter, that is iff it does not hold
\* exactly two delimiters; otherwise it returns the three delimiter-free
\* fields whose join is the raw string, in order.
C5_DecodeExactlyThreeFields ==
    codecOut.kind = "decoded" =>
        LET raw == codecOut.raw
            r == codecOut.parsed
        IN  /\ (r.err # Nil) <=> (Count(raw, Dash) # 2)
            /\ r.err # Nil =>
                  /\ r.err = InvalidVersionFormat(raw)
                  /\ r.version = <<>> /\ r.os = <<>> /\ r.arch = <<>>
            /\ r.err = Nil =>
                  /\ r.version \o <<Dash>> \o r.os \o <<Dash>> \o r.arch = raw
                  /\ Count(r.version, Dash) = 0
                  /\ Count(r.os, Dash) = 0
                  /\ Count(r.arch, Dash) = 0

C5_Witness ==
    /\ codecIn.kind = "raw"
    /\ codecOut.kind = "decoded"
    /\ codecOut.parsed.err = Nil
    /\ codecOut.parsed.version # <<>>
    /\ codecOut.parsed.os = <<>>

\* the k-th delimiter-separated field of a decodable raw string
FieldOf(raw, k) == Split(raw, Dash)[k]

\* C6: mapVersions yields one entry per distinct version among the
\* decodable raw strings; the entry's platforms are the (os, arch) of the
\* decodable raw strings of that version, once per raw string and in
\* listing order; every entry has protocols ["5.0"]; undecodable raw
\* strings add no entry and drop none.
C6_GroupedByVersion ==
    ListingSucceeded("ProviderVersions") =>
        LET dec == SelectSeq(fullVersions, Decodable)
            V == result.val.Versions
        IN  /\ \A i, j \in DOMAIN V : V[i].Version = V[j].Version => i = j
            /\ {V[i].Version : i \in DOMAIN V} = {FieldOf(dec[k], 1) : k \in DOMAIN dec}
            /\ \A i \in DOMAIN V :
                  LET mine == SelectSeq(dec, LAMBDA r : FieldOf(r, 1) = V[i].Version)
                  IN  /\ V[i].Protocols = <<"5.0">>
                      /\ V[i].Platforms =
                            [k \in DOMAIN mine |->
                                [OS |-> FieldOf(mine[k], 2), Arch |-> FieldOf(mine[k], 3)]]

C6_Witness ==
    /\ ListingSucceeded("ProviderVersions")
    /\ Len(fullVersions) = 3
    /\ Undecodable(fullVersions) # <<>>
    /\ Len(result.val.Versions) = 1
    /\ Len(result.val.Versions[1].Platforms) = 2
    /\ result.val.Versions[1].Platforms[1] # result.val.Versions[1].Platforms[2]

\* C7: when a listing call of ListProviderVersions, ListModuleVersions or
\* GetProviderVersion reports a transport error, on whichever page, the
\* operation returns an error and a nil result, never what earlier pages
\* delivered.
C7_ListingErrorAborts ==
    ( /\ Returned
      /\ \E i \in ListingCalls : ~calls[i].ok )
    => /\ result.val = Nil
       /\ result.err # Nil
       /\ result.err.cause = ListingError

C7_Witness ==
    /\ Returned
    /\ Len(calls) = 2
    /\ ListingCalls = {1, 2}
    /\ calls[1].ok /\ ~calls[2].ok
    /\ fullVersions # <<>> \/ vs # <<>> \/ files # <<>>
    /\ result.val = Nil

\* C8: Download returns a stream iff the upstream answered with status 200;
\* for every other status it returns no stream and an error carrying the
\* status code, so GetProviderAsset hands its caller a stream only for a
\* 200 response.
C8_StreamOnlyOn200 ==
    /\ \A i \in DownloadCalls :
          LET c == calls[i]
          IN  /\ c.returned <=> (c.resp.kind = "response" /\ c.resp.status = 200)
              /\ c.returned <=> (c.err = Nil)
              /\ (c.resp.kind = "response" /\ c.resp.status # 200) =>
                    /\ c.err.kind = "unexpected download status code"
                    /\ c.err.code = c.resp.status
    /\ (op.kind = "ProviderAssetDownload" /\ Returned) =>
          LET c == calls[Len(calls)]
          IN  /\ (result.val # Nil) <=> (c.resp.kind = "response" /\ c.resp.status = 200)
              /\ (result.val = Nil) <=> (result.err # Nil)
              /\ (c.resp.kind = "response" /\ c.resp.status # 200) =>
                    result.err.cause.code = c.resp.status

C8_Witness ==
    /\ op.kind = "ProviderAssetDownload"
    /\ Returned
    /\ calls[1].resp.status = 404
    /\ result.val = Nil
    /\ result.err.cause.code = 404

\* C9 as stated: every upstream response body opened during a request is
\* closed by the time the request finishes, on every exit path.
C9_BodiesClosedAtFinish ==
    pc \in {"done", "panicked"} => \A i \in DOMAIN bodies : bodies[i] = "closed"

\* the key file content holds exactly one key entity in a public key block
ExactlyOneEntity(all) ==
    /\ Len(all) >= 2
    /\ all[1] = "BEGIN PGP PUBLIC KEY BLOCK"
    /\ all[Len(all)] = "END"
    /\ Cardinality({i \in DOMAIN all : all[i] \in KeyPackets}) = 1

\* C10: on key-ring bytes that were downloaded and read in full,
\* parseGPGKeys succeeds iff they decode to exactly one key entity; with
\* none or several it returns an error and no key. On success it returns
\* exactly one signing key whose armor text is the downloaded input and
\* whose key id is the id of that entity's primary key.
C10_ExactlyOneKeyVerbatim ==
    (op.kind = "ProviderDownload" /\ Returned /\ content.key # Nil
        /\ ~content.key.readErr) =>
        LET all == content.key.all
        IN  /\ (keys # <<>>) <=> ExactlyOneEntity(all)
            /\ keys = <<>> =>
                  /\ result.val = Nil
                  /\ result.err.kind = "failed to parse GPG keys"
            /\ keys # <<>> =>
                  /\ Len(keys) = 1
                  /\ keys[1].ASCIIArmor = all
                  /\ \E i \in DOMAIN all :
                        all[i] \in KeyPackets /\ keys[1].KeyID = KeyIdString[all[i]]

C10_Witness ==
    /\ op.kind = "ProviderDownload"
    /\ Returned
    /\ content.key # Nil
    /\ Len(keys) = 1
    /\ keys[1].ASCIIArmor = content.key.all
    /\ keys[1].ASCIIArmor # Serialize("pkt:A")
    /\ keys[1].KeyID = "000000000000000A"
    /\ result.val # Nil

\* GetProviderVersion has returned after running findSHA: the files were
\* found, the manifest was scanned and the keys were parsed
LookupDone ==
    /\ op.kind = "ProviderDownload"
    /\ Returned
    /\ content.key # Nil
    /\ keys # <<>>

\* s ends with t: s is t with some (possibly empty) text in front
EndsWith(s, t) == \E n \in 0..Len(s) : SubSeq(s, n + 1, Len(s)) = t

\* C11 as stated: an entry whose name ends with the target file name (the
\* target prefixed with extra path segments, or the target itself) makes
\* the lookup return that entry's digest, and the lookup fails only when no
\* entry name ends with the target name.
C11_EntryEndingWithTargetFound ==
    LookupDone =>
        /\ \A k \in DOMAIN shaSums :
              EndsWith(k, names.providerBinName) =>
                  /\ result.err = Nil
                  /\ \E j \in DOMAIN shaSums :
                        /\ EndsWith(j, names.providerBinName)
                        /\ result.val.SHASum = shaSums[j]
        /\ result.err # Nil =>
              \A k \in DOMAIN shaSums : ~EndsWith(k, names.providerBinName)

\* C11 amended: the match runs the other way. The lookup of a target file
\* name succeeds iff some entry name is a suffix of the target name (the
\* target is the entry name prefixed with extra text, or equals it); it
\* then returns the name and the digest of such an entry, and it fails only
\* when no entry name is a suffix of the target name.
C11_EntrySuffixOfTargetFound ==
    LookupDone =>
        /\ (result.err = Nil) <=>
              (\E k \in DOMAIN shaSums : EndsWith(names.providerBinName, k))
        /\ result.err = Nil =>
              /\ result.val.Filename \in DOMAIN shaSums
              /\ EndsWith(names.providerBinName, result.val.Filename)
              /\ result.val.SHASum = shaSums[result.val.Filename]
        /\ result.err # Nil =>
              /\ result.val = Nil
              /\ result.err.kind = "failed to find SHA"

C11_Witness ==
    /\ LookupDone
    /\ result.err = Nil
    /\ result.val.Filename # names.providerBinName
    /\ result.val.SHASum = <<"h1">>

\* /download/module/{namespace}/asset/{file}, the file being the archive
\* name of the package terraform-{system}-{name} at the version
ExpectedModuleURL(namespace, name, system, version) ==
    <<Slash, "download", Slash, "module", Slash>> \o namespace
        \o <<Slash, "asset", Slash, "terraform", Dash>> \o system \o <<Dash>> \o name
        \o <<":">> \o version \o <<":", "module", Dash, "archive.tar.gz">>

\* C12: GetModuleVersion issues no backing-store call and opens no body,
\* returns a nil error, and its value is determined by its arguments alone
\* (the version and the source URL computed from them), so two calls with
\* the same arguments return the same value whatever ran before.
C12_GetModuleVersionPure ==
    (op.kind = "ModuleDownload" /\ pc = "done") =>
        /\ calls = <<>>
        /\ bodies = <<>>
        /\ logged = <<>>
        /\ result.err = Nil
        /\ result.val = [kind |-> "ModuleVersion",
                         Version |-> op.version,
                         SourceURL |-> ExpectedModuleURL(op.namespace, op.name,
                                                         op.system, op.version)]
        /\ status = 204

C12_Witness ==
    /\ op.kind = "ModuleDownload"
    /\ pc = "done"
    /\ Count(op.version, Dash) > 0
    /\ result.val.Version = op.version

\* C13: every version v that ListModuleVersions returns carries the source
\* URL that GetModuleVersion returns for (namespace, name, system, v), and
\* it is /download/module/{namespace}/asset/{file} with the archive name of
\* the package terraform-{system}-{name} at v.
C13_ListGetAgree ==
    ListingSucceeded("ModuleVersions") =>
        /\ result.val.kind = "ModuleVersions"
        /\ \A i \in DOMAIN result.val.list :
              LET e == result.val.list[i]
                  got == GetModuleVersion(op.namespace, op.name, op.system, e.Version)
              IN  /\ got.err = Nil
                  /\ got.val.Version = e.Version
                  /\ e.SourceURL = got.val.SourceURL
                  /\ e.SourceURL = ExpectedModuleURL(op.namespace, op.name,
                                                     op.system, e.Version)

C13_Witness ==
    /\ ListingSucceeded("ModuleVersions")
    /\ Len(result.val.list) >= 2
    /\ result.val.list[1].Version # result.val.list[2].Version
    /\ result.val.list[1].SourceURL # result.val.list[2].SourceURL

\* the innermost error of a chain of wrapped errors
RECURSIVE RootCause(_)
RootCause(err) == IF "cause" \in DOMAIN err THEN RootCause(err.cause) ELSE err

ResourceErrors ==
    {"provider binary not found", "SHA256SUMS not found",
     "SHA256SUMS.sig not found", "failed to find SHA"}

TransportErrors ==
    {"listing transport error", "failed to execute download request",
     "unexpected download status code"}

\* C14 as stated: on the provider-versions, provider-download,
\* module-versions and asset-download routes a store failure for a missing
\* asset or digest answers 404, and a store failure for a listing transport
\* error or a failed or non-200 download answers 500.
C14_StatusByErrorKind ==
    ( /\ pc = "done"
      /\ op.kind \in {"ProviderVersions", "ProviderDownload", "ModuleVersions",
                      "ProviderAssetDownload"}
      /\ result.err # Nil )
    => /\ RootCause(result.err).kind \in ResourceErrors => status = 404
       /\ RootCause(result.err).kind \in TransportErrors => status = 500

\* the resource name the backing store listed for the file id
ListedAs(id) == CHOOSE f \in {store.files[i] : i \in DOMAIN store.files} : Base(f) = id

\* the URL is /download/provider/{namespace}/asset/{f} with f the base name
\* of the file listed for role k, and the asset route, which binds the
\* fourth and the sixth segment of the path to namespace and assetName,
\* downloads the listed file's resource name followed by ":download"
RoundTrips(url, k) ==
    LET seg == Split(url, Slash)
    IN  /\ Len(seg) = 6
        /\ seg[1] = <<>>
        /\ seg[2] = <<"download">>
        /\ seg[3] = <<"provider">>
        /\ seg[4] = op.namespace
        /\ seg[5] = <<"asset">>
        /\ RoleId(k) \in StoredIds
        /\ seg[6] = Base(ListedAs(RoleId(k)))
        /\ downloadName(seg[4], seg[6]) = ListedAs(RoleId(k)) \o <<":download">>

\* C15: after a successful GetProviderVersion the binary, manifest and
\* signature URLs are /download/provider/{namespace}/asset/{f} for the base
\* name f of the file listed for the role, and the asset route serves such a
\* URL by one download of exactly the listed object, "<file name>:download",
\* never by a redirect.
C15_DownloadURLRoundTrip ==
    /\ (op.kind = "ProviderDownload" /\ Returned /\ result.val # Nil) =>
          /\ RoundTrips(result.val.DownloadURL, 1)
          /\ RoundTrips(result.val.SHASumsURL, 2)
          /\ RoundTrips(result.val.SHASumsSignatureURL, 3)
    /\ (op.kind = "ProviderAssetDownload" /\ Returned) =>
          /\ Len(calls) = 1
          /\ calls[1].api = "Download"
          /\ calls[1].url =
                downloadURL(fileResourceName(op.namespace, op.assetName) \o <<":download">>)
          /\ status \in {0, 200, 404, 500}

C15_Witness ==
    /\ op.kind = "ProviderDownload"
    /\ Returned
    /\ result.val # Nil
    /\ result.val.DownloadURL # result.val.SHASumsURL
    /\ Count(op.version, Dash) > 0

\* the store operation of the request is still running
Running ==
    pc \in {"ListProviderVersions", "ListModuleVersions", "ListFiles", "parseSHASumFile", "scanSHASumFile", "parseGPGKeys",
            "readGPGKeys", "GetProviderAsset"}

CallFailed(c) == IF c.api = "Download" THEN c.err # Nil ELSE ~c.ok

CallsAfterCancelFail ==
    \A i \in DOMAIN calls : calls[i].ctxDone => CallFailed(calls[i])

\* C16 as stated: every call issued after the cancellation fails, and a
\* store operation that is still running when the request context is
\* cancelled returns an error, never a version set or a descriptor.
C16_CancelledOperationFails ==
    [][ /\ CallsAfterCancelFail'
        /\ (cancelled /\ Running /\ pc' = "returned") =>
               (result'.val = Nil /\ result'.err # Nil) ]_vars

\* C16 amended: every call issued after the cancellation fails, and an
\* operation that issued a call after the cancellation returns an error and
\* no result. (An operation whose calls were all issued before the
\* cancellation may still return its result.)
C16_CallAfterCancelFailsOperation ==
    /\ CallsAfterCancelFail
    /\ (Returned /\ \E i \in DOMAIN calls : calls[i].ctxDone) =>
           (result.val = Nil /\ result.err # Nil)

C16_Witness ==
    /\ Returned
    /\ Len(calls) >= 2
    /\ ~calls[1].ctxDone
    /\ CallFailed(calls[Len(calls)])
    /\ calls[Len(calls)].ctxDone
    /\ calls[Len(calls)].api = "Download"
    /\ result.err # Nil

\* the manifest body has been read by parseSHASumFile
ManifestRead == op.kind = "ProviderDownload" /\ content.manifest # Nil

\* C19: when the read of the checksum manifest body fails before its end,
\* GetProviderVersion returns an error and no descriptor.
C19_ManifestReadFailureFails ==
    (ManifestRead /\ Returned /\ content.manifest.readErr) =>
        (result.val = Nil /\ result.err # Nil)

\* C20: parseSHASumFile never panics, whatever the lines of the manifest
\* are, and for every line with two or more fields the mapping it returns
\* takes field 2 to field 1 (of the last such line), the other fields being
\* ignored.
C20_EveryLineShapeHandled ==
    /\ pc # "panicked"
    /\ (ManifestRead /\ pc \in {"parseGPGKeys", "readGPGKeys"}) =>
          LET lines == content.manifest.lines
          IN  \A i \in DOMAIN lines :
                 Len(Fields(lines[i])) >= 2 =>
                    /\ Fields(lines[i])[2] \in DOMAIN shaSums
                    /\ \/ shaSums[Fields(lines[i])[2]] = Fields(lines[i])[1]
                       \/ \E j \in DOMAIN lines :
                             /\ j > i
                             /\ Len(Fields(lines[j])) >= 2
                             /\ Fields(lines[j])[2] = Fields(lines[i])[2]

\* the version names the operation has collected, in order
Collected ==
    IF op.kind = "ProviderVersions" THEN fullVersions
    ELSE [i \in DOMAIN vs |-> vs[i].Version]

\* the short names of the versions the backing store lists, in order
Listed ==
    LET pkg == IF op.kind = "ProviderVersions" THEN op.name
               ELSE modulePkg(op.name, op.system)
    IN  [i \in DOMAIN store.versions |->
            Base(versionName(op.namespace, pkg, store.versions[i]))]

NumPages ==
    IF store.versions = <<>> THEN 1
    ELSE (Len(store.versions) + MaxPageLen - 1) \div MaxPageLen

Listing == pc \in {"ListProviderVersions", "ListModuleVersions"}

\* C18: ListProviderVersions and ListModuleVersions terminate, and when no
\* listing call failed they have collected every version the store lists,
\* each once and in listing order, by fetching every page exactly once:
\* call i asks for page i - 1 and there are as many calls as pages.
C18_PaginationCompleteAndTerminates ==
    /\ [](\A kind \in {"ProviderVersions", "ModuleVersions"} :
             ListingSucceeded(kind) =>
                /\ Collected = Listed
                /\ Len(calls) = NumPages
                /\ \A i \in DOMAIN calls : calls[i].pageToken = i - 1)
    /\ (Listing ~> Returned)

C18_Witness ==
    /\ ListingSucceeded("ModuleVersions")
    /\ Len(store.versions) > MaxPageLen
    /\ Len(calls) = 2
    /\ Collected = Listed

\* the results invocation q can return when it runs alone
RECURSIVE Alone(_)
Alone(q) ==
    IF q.pc = "returned" THEN {q.result}
    ELSE UNION {Alone(n) : n \in listingCall(q, q.pageToken)}

\* invocation q as it was started
AsStarted(q) ==
    [q EXCEPT !.pc = "listing", !.ncalls = 0, !.pageToken = 0,
              !.collected = <<>>, !.result = NoResult]

Matching == {k \in DOMAIN shaSums : EndsWith(names.providerBinName, k)}

\* the lookup has returned an entry
LookupFound == LookupDone /\ result.err = Nil

\* C21 as stated: the descriptor does not depend on the order in which the
\* lookup visits the manifest's mapping: whatever the order, the lookup
\* gives the file name and the digest of the returned descriptor; and the
\* digest is the one the manifest maps to the returned file name.
C21_DigestDeterministic ==
    LookupFound =>
        /\ \A order \in RangeOrders(shaSums) :
              LET found == findSHA(shaSums, names.providerBinName, order)
              IN  /\ found.name = result.val.Filename
                  /\ found.sha = result.val.SHASum
        /\ result.val.SHASum = shaSums[result.val.Filename]

\* C21 amended: the descriptor names one of the matching entries with the
\* digest the manifest maps to that entry, and it is the same for every
\* order of visit when exactly one entry matches; when several entries
\* match, each of them is returned under some order of visit.
C21_DigestOfSomeMatchingEntry ==
    LookupFound =>
        /\ result.val.Filename \in Matching
        /\ result.val.SHASum = shaSums[result.val.Filename]
        /\ Cardinality(Matching) = 1 =>
              \A order \in RangeOrders(shaSums) :
                 LET found == findSHA(shaSums, names.providerBinName, order)
                 IN  /\ found.name = result.val.Filename
                     /\ found.sha = result.val.SHASum
        /\ \A k \in Matching :
              \E order \in RangeOrders(shaSums) :
                 LET found == findSHA(shaSums, names.providerBinName, order)
                 IN  found.name = k /\ found.sha = shaSums[k]

C21_Witness ==
    /\ LookupFound
    /\ Cardinality(Matching) = 2
    /\ \E k \in Matching :
          /\ k # result.val.Filename
          /\ Len(k) > Len(result.val.Filename)
          /\ shaSums[k] # result.val.SHASum

====
